---- MODULE Spec2Model ----
(***************************************************************************)
(* Model of the real-time market-data synchronisation layer of the crypto  *)
(* dashboard: the dashboard's pair selection and the useCryptoWebSocket    *)
(* hook (one WebSocket per mounted dashboard, subscribe / unsubscribe      *)
(* protocol, inbound frame dispatch, teardown).                            *)
(*                                                                         *)
(* One step of the model is one run-to-completion event of the single      *)
(* JavaScript thread: a DOM event handler together with the React render   *)
(* and the effects it triggers, or one WebSocket callback.                 *)
(***************************************************************************)
EXTENDS Integers, Sequences, FiniteSets, Bags, TLC

VARIABLES
    pair,            \* useDashboardController: the selected pair (React state)
    mounted,         \* the Dashboard (and with it the hook) is mounted
    readyState,      \* WebSocket.readyState of the hook's socket
    currentPairRef,  \* useCryptoWebSocket: currentPairRef.current
    updatedCandle,   \* useCryptoWebSocket: updatedCandle (React state)
    orderBook,       \* useCryptoWebSocket: orderBook (React state)
    sent,            \* the frames passed to socket.send, oldest first
    closeCalls,      \* how many times socket.close() has been called
    event,           \* MessageEvent.data handed to socket.onmessage by this step
    outcome,         \* how the callback run by this step ended
    candleCache,     \* cryptoApiService: the Map inside candleCache
    now,             \* Date.now(), in milliseconds
    inflight,        \* the bag of apiFetch calls whose request has not settled
    apiCalls,        \* what the service did for a direct caller in this step
    isReady,         \* useCandleChart: isReady (React state)
    candleSeriesRef, \* useCandleChart: candleSeriesRef.current is a series
    series,          \* the data of the chart's candlestick series, oldest first
    isLoading,       \* useCryptoCandleChartController: isLoading
    errorMessage,    \* useCryptoCandleChartController: errorMessage
    fetchedOrderBook,\* useOrderbookController: orderBook (the fetched snapshot)
    loading,         \* useOrderbookController: loading
    error,           \* useOrderbookController: error
    streamMode,      \* useDashboardController: the selected stream mode
    cache,           \* a cache made by createCache(ttl): the Map `store`
    ttl,             \* the ttlMs that cache was created with
    cacheCall        \* the call made on that cache in this step, and its result

socketVars == <<pair, mounted, readyState, currentPairRef, updatedCandle,
                orderBook, sent, closeCalls, event, outcome>>

apiVars == <<candleCache, now, inflight, apiCalls>>

chartVars == <<isReady, candleSeriesRef, series, isLoading, errorMessage>>

orderBookVars == <<fetchedOrderBook, loading, error>>

panelVars == <<chartVars, orderBookVars>>

cacheVars == <<cache, ttl, cacheCall>>

modeVars == <<streamMode>>

vars == <<socketVars, apiVars, panelVars, cacheVars, modeVars>>

(***************************************************************************)
(* Bounds of the model.                                                    *)
(***************************************************************************)
\* Longest sequence of outbound frames explored while the socket is open.
MaxFrames == 5

\* Most direct calls of the service awaiting the network at once.
MaxCalls == 2

\* Last value of the clock.
MaxClock == 1

\* Most requests of the two panels awaiting the network at once.
MaxInFlight == 3

\* Last value of the clock while a cache is used on its own.
MaxCacheClock == 2

(***************************************************************************)
(* Program constants and types.                                            *)
(***************************************************************************)
\* type CryptoPair
Pairs == {"BTC-USDT", "ETH-USDT", "XRP-USDT"}

\* The pair the dashboard starts with, and the one the hook hard-codes.
DefaultPair == "BTC-USDT"

ReadyStates == {"CONNECTING", "OPEN", "CLOSING", "CLOSED"}

\* type StreamMode
StreamModes == {"all", "candles", "orderbook"}

(***************************************************************************)
(* JavaScript / JSON values.  Every value is a record tagged by t, so that *)
(* values of different JavaScript types can be compared.                   *)
(***************************************************************************)
Undefined == [t |-> "undefined"]
JNull == [t |-> "null"]
JNumber(n) == [t |-> "number", n |-> n]
JString(s) == [t |-> "string", s |-> s]

\* interface Candle, reduced to the fields the layer looks at.
Candle(time, close) == [t |-> "Candle", time |-> time, close |-> close]

\* interface OrderBook: the snapshot carries its own pair.
OrderBook(p, timestamp) ==
    [t |-> "OrderBook", pair |-> JString(p), timestamp |-> timestamp]

\* A JSON object with the fields an inbound message can carry; a field that
\* is absent from the object holds Undefined.
Message(type, p, candle, data, message) ==
    [t |-> "Message", type |-> type, pair |-> p, candle |-> candle,
     data |-> data, message |-> message]

\* v.name in JavaScript, for a value v that is neither null nor undefined:
\* the field, or undefined when v has no such field.
Prop(v, name) == IF name \in DOMAIN v THEN v[name] ELSE Undefined

\* Reading a property of null or undefined throws a TypeError.
PropThrows(v) == v.t \in {"null", "undefined"}

\* v === s for a string literal s.
StrictEqStr(v, s) == v.t = "string" /\ v.s = s

(***************************************************************************)
(* Frames on the wire.  event.data is a string; it is modelled by whether  *)
(* it is JSON text and, if so, by the value JSON.parse builds from it.     *)
(***************************************************************************)
NoEvent == [t |-> "none"]
JsonText(v) == [t |-> "text", json |-> TRUE, value |-> v]
NotJsonText == [t |-> "text", json |-> FALSE, value |-> Undefined]

\* JSON.parse(text): throws a SyntaxError on text that is not JSON.
JSONParse(text) == [threw |-> ~text.json, value |-> text.value]

\* Candles a server can push (Candle.time is in milliseconds): the period
\* the history ends with, a later period that starts within the same
\* second, and a period one second later.
LiveCandles == {Candle(2100, 5), Candle(2160, 7), Candle(3100, 9)}

CandleUpdateFrame(p, candle) ==
    JsonText(Message(JString("candle_update"), JString(p), candle,
                     Undefined, Undefined))

OrderBookUpdateFrame(p, data) ==
    JsonText(Message(JString("orderbook_update"), JString(p), Undefined,
                     data, Undefined))

ErrorFrame ==
    JsonText(Message(JString("error"), Undefined, Undefined, Undefined,
                     JString("unknown stream")))

\* An object whose type the client does not know, with or without a pair.
UnknownFrames ==
    {JsonText(Message(JString("trade_update"), p, Undefined, Undefined,
                      Undefined)) : p \in {Undefined} \cup {JString(q) : q \in Pairs}}

\* Well-formed frames of the protocol (interface InboundMessage).
WellFormedFrames ==
    {CandleUpdateFrame(p, c) : p \in Pairs, c \in LiveCandles}
      \cup {OrderBookUpdateFrame(p, OrderBook(p, 1)) : p \in Pairs}
      \cup {ErrorFrame}

\* Everything else a peer can put on the socket: text that is not JSON,
\* JSON that is not an object, objects of unknown type, and recognised
\* types without their payload.
MalformedFrames ==
    {NotJsonText, JsonText(JNull), JsonText(JNumber(42))}
      \cup UnknownFrames
      \cup {CandleUpdateFrame(p, Undefined) : p \in Pairs}
      \cup {OrderBookUpdateFrame(p, Undefined) : p \in Pairs}

Frames == WellFormedFrames \cup MalformedFrames

\* The payloads the hook passes to JSON.stringify and socket.send
\* (interface SubscribePayload).
Subscribe(p) == [type |-> "subscribe", pair |-> p, stream |-> "all"]
Unsubscribe(p) == [type |-> "unsubscribe", pair |-> p, stream |-> "all"]

(***************************************************************************)
(* useCryptoWebSocket.                                                     *)
(***************************************************************************)
TypeOK ==
    /\ pair \in Pairs
    /\ mounted \in BOOLEAN
    /\ readyState \in ReadyStates
    /\ currentPairRef \in Pairs
    /\ updatedCandle \in {JNull, Undefined} \cup LiveCandles
    /\ orderBook \in {JNull, Undefined} \cup {OrderBook(p, 1) : p \in Pairs}
    /\ sent \in Seq({Subscribe(p) : p \in Pairs} \cup {Unsubscribe(p) : p \in Pairs})
    /\ closeCalls \in Nat
    /\ event \in {NoEvent} \cup Frames
    /\ outcome \in {"returned", "warned", "threw"}

\* State after the first render and its effects: the dashboard starts on
\* BTC-USDT, the connection effect has created the socket and set
\* currentPairRef, and the pair effect has returned early because the new
\* socket is still CONNECTING.
InitSocket ==
    /\ pair = DefaultPair
    /\ streamMode = "all"
    /\ mounted = TRUE
    /\ readyState = "CONNECTING"
    /\ currentPairRef = DefaultPair
    /\ updatedCandle = JNull
    /\ orderBook = JNull
    /\ sent = <<>>
    /\ closeCalls = 0
    /\ event = NoEvent
    /\ outcome = "returned"

\* socket.onopen: the browser sets readyState to OPEN and fires the event.
OnOpen ==
    /\ readyState = "CONNECTING"
    /\ readyState' = "OPEN"
    /\ sent' = Append(sent, Subscribe(DefaultPair))
    /\ event' = NoEvent
    /\ outcome' = "returned"
    /\ UNCHANGED <<pair, mounted, currentPairRef, updatedCandle, orderBook,
                   closeCalls>>

\* Variant: the error branch is missing, so an error frame reaches the pair filter.
IsErrorMessage_Missing(msg) == FALSE

\* msg.type === "error"
IsErrorMessage(msg) == StrictEqStr(Prop(msg, "type"), "error")

\* Variant: no pair filter, every update is taken.
PairMatches_NoFilter(msg, current) == TRUE

\* The pair filter: msg.pair !== currentPairRef.current returns.
PairMatches(msg, current) == StrictEqStr(Prop(msg, "pair"), current)

\* socket.onmessage.  The browser delivers message events only while
\* readyState is OPEN.
OnMessage(data) ==
    /\ readyState = "OPEN"
    /\ event' = data
    /\ LET parsed == JSONParse(data)
           msg == parsed.value
       IN  IF parsed.threw
           THEN \* catch { return; }
                /\ outcome' = "returned"
                /\ UNCHANGED <<updatedCandle, orderBook>>
           ELSE IF PropThrows(msg)
           THEN \* msg.type on null: TypeError outside the try block
                /\ outcome' = "threw"
                /\ UNCHANGED <<updatedCandle, orderBook>>
           ELSE IF IsErrorMessage(msg)
           THEN \* console.warn, return
                /\ outcome' = "warned"
                /\ UNCHANGED <<updatedCandle, orderBook>>
           ELSE IF ~PairMatches(msg, currentPairRef)
           THEN /\ outcome' = "returned"
                /\ UNCHANGED <<updatedCandle, orderBook>>
           ELSE IF StrictEqStr(Prop(msg, "type"), "candle_update")
           THEN /\ updatedCandle' = Prop(msg, "candle")
                /\ outcome' = "returned"
                /\ UNCHANGED orderBook
           ELSE IF StrictEqStr(Prop(msg, "type"), "orderbook_update")
           THEN /\ orderBook' = Prop(msg, "data")
                /\ outcome' = "returned"
                /\ UNCHANGED updatedCandle
           ELSE /\ outcome' = "returned"
                /\ UNCHANGED <<updatedCandle, orderBook>>
    /\ UNCHANGED <<pair, mounted, readyState, currentPairRef, sent, closeCalls>>

\* Variant: the pair effect only checks that a socket exists.
CanSend_SocketExists(rs) == TRUE

\* The guard of the pair effect: it returns unless the socket is OPEN.
CanSend(rs) == rs = "OPEN"

\* Variant: the new pair is subscribed before the previous one is dropped.
PairChangeFrames_SubscribeFirst(previousPair, p) ==
    <<Subscribe(p)>>
        \o (IF previousPair # p THEN <<Unsubscribe(previousPair)>> ELSE <<>>)

\* Variant: the previous pair is never unsubscribed.
PairChangeFrames_NoUnsubscribe(previousPair, p) == <<Subscribe(p)>>

\* What the pair effect sends for the new pair p.
PairChangeFrames(previousPair, p) ==
    (IF previousPair # p THEN <<Unsubscribe(previousPair)>> ELSE <<>>)
        \o <<Subscribe(p)>>

HandlePairChange_KeepsFilterPair(p) ==
    /\ mounted
    /\ p # pair
    /\ CanSend(readyState) => Len(sent) + 2 <= MaxFrames
    /\ pair' = p
    /\ IF CanSend(readyState)
       THEN sent' = sent \o PairChangeFrames(currentPairRef, p)
       ELSE UNCHANGED sent
    /\ event' = NoEvent
    /\ outcome' = "returned"
    /\ UNCHANGED <<mounted, readyState, currentPairRef, updatedCandle, orderBook,
                   closeCalls>>

\* handlePairChange(p) with p other than the selected pair: setPair, the
\* re-render, and the pair effect of useCryptoWebSocket that it triggers.
HandlePairChange(p) ==
    /\ mounted
    /\ p # pair
    /\ CanSend(readyState) => Len(sent) + 2 <= MaxFrames
    /\ pair' = p
    /\ IF CanSend(readyState)
       THEN /\ sent' = sent \o PairChangeFrames(currentPairRef, p)
            /\ currentPairRef' = p
       ELSE UNCHANGED <<sent, currentPairRef>>
    /\ event' = NoEvent
    /\ outcome' = "returned"
    /\ UNCHANGED <<mounted, readyState, updatedCandle, orderBook, closeCalls>>

\* Variant: the close handler opens a new connection.
OnClose_Reconnect ==
    /\ readyState = "OPEN"
    /\ readyState' = "CONNECTING"
    /\ event' = NoEvent
    /\ outcome' = "returned"
    /\ UNCHANGED <<pair, mounted, currentPairRef, updatedCandle, orderBook,
                   sent, closeCalls>>

\* socket.onclose after the peer closed the connection or the connection
\* attempt failed: the handler only logs.
OnClose ==
    /\ readyState \in {"CONNECTING", "OPEN"}
    /\ readyState' = "CLOSED"
    /\ event' = NoEvent
    /\ outcome' = "returned"
    /\ UNCHANGED <<pair, mounted, currentPairRef, updatedCandle, orderBook,
                   sent, closeCalls>>

\* Variant: the cleanup runs, and calls socket.close(), on every unmount request.
Unmount_Repeatable ==
    /\ closeCalls < 2
    /\ mounted' = FALSE
    /\ closeCalls' = closeCalls + 1
    /\ readyState' = IF readyState \in {"CONNECTING", "OPEN"}
                     THEN "CLOSING" ELSE readyState
    /\ event' = NoEvent
    /\ outcome' = "returned"
    /\ UNCHANGED <<pair, currentPairRef, updatedCandle, orderBook, sent>>

\* Teardown of the dashboard.  The first request unmounts it: the cleanup of
\* the connection effect calls socket.close(), which starts the closing
\* handshake unless the socket is already closed.  The effect has no
\* dependencies, so its cleanup runs at unmount only; a repeated request
\* finds nothing mounted and runs no cleanup.
Unmount ==
    /\ IF mounted
       THEN /\ mounted' = FALSE
            /\ closeCalls' = closeCalls + 1
            /\ readyState' = IF readyState \in {"CONNECTING", "OPEN"}
                             THEN "CLOSING" ELSE readyState
       ELSE UNCHANGED <<mounted, closeCalls, readyState>>
    /\ event' = NoEvent
    /\ outcome' = "returned"
    /\ UNCHANGED <<pair, currentPairRef, updatedCandle, orderBook, sent>>

\* socket.onclose at the end of the closing handshake started by close().
OnCloseAfterClose ==
    /\ readyState = "CLOSING"
    /\ readyState' = "CLOSED"
    /\ event' = NoEvent
    /\ outcome' = "returned"
    /\ UNCHANGED <<pair, mounted, currentPairRef, updatedCandle, orderBook,
                   sent, closeCalls>>

(***************************************************************************)
(* apiCache: createCache.  The Map is a function whose domain is the set   *)
(* of stored keys; an entry is { data, storedAt }.                         *)
(***************************************************************************)
\* The number Infinity, and a finite number of milliseconds.
Infinity == [finite |-> FALSE, ms |-> 0]
Millis(n) == [finite |-> TRUE, ms |-> n]

IsExpired_InfinityAsZero(entry, ttlMs, nowMs) ==
    nowMs - entry.storedAt > ttlMs.ms

\* Date.now() - entry.storedAt > ttlMs
IsExpired(entry, ttlMs, nowMs) ==
    ttlMs.finite /\ nowMs - entry.storedAt > ttlMs.ms

CacheDelete_All(store, key) == <<>>

\* store.delete(key)
CacheDelete(store, key) == [k \in DOMAIN store \ {key} |-> store[k]]

CacheGet_NoEvict(store, key, ttlMs, nowMs) ==
    IF key \notin DOMAIN store \/ IsExpired(store[key], ttlMs, nowMs)
      THEN [data |-> Undefined, store |-> store]
      ELSE [data |-> store[key].data, store |-> store]

\* get(key): the value returned and the store it leaves behind (an expired
\* entry is deleted by the read).
CacheGet(store, key, ttlMs, nowMs) ==
    IF key \notin DOMAIN store
      THEN [data |-> Undefined, store |-> store]
      ELSE IF IsExpired(store[key], ttlMs, nowMs)
             THEN [data |-> Undefined, store |-> CacheDelete(store, key)]
             ELSE [data |-> store[key].data, store |-> store]

CacheSet_KeepsStoredAt(store, key, data, nowMs) ==
    [k \in DOMAIN store \cup {key} |->
        IF k = key
          THEN [data |-> data,
                storedAt |-> IF key \in DOMAIN store THEN store[key].storedAt
                             ELSE nowMs]
          ELSE store[k]]

\* set(key, data)
CacheSet(store, key, data, nowMs) ==
    [k \in DOMAIN store \cup {key} |->
        IF k = key THEN [data |-> data, storedAt |-> nowMs] ELSE store[k]]

\* clear()
CacheClear(store) == <<>>

CacheHas_EntryExists(store, key, ttlMs, nowMs) ==
    [result |-> key \in DOMAIN store, store |-> store]

\* has(key): get(key) !== undefined, with the store get leaves behind.
CacheHas(store, key, ttlMs, nowMs) ==
    LET read == CacheGet(store, key, ttlMs, nowMs)
    IN  [result |-> read.data.t # "undefined", store |-> read.store]

\* The service module after it is loaded: an empty cache, nothing in flight.
InitApi ==
    /\ candleCache = <<>>
    /\ now = 0
    /\ inflight = EmptyBag
    /\ apiCalls = <<>>

\* The panels before anything has run: the initial values of their state.
InitPanels ==
    /\ isReady = FALSE
    /\ candleSeriesRef = FALSE
    /\ series = <<>>
    /\ isLoading = FALSE
    /\ errorMessage = JNull
    /\ fetchedOrderBook = JNull
    /\ loading = FALSE
    /\ error = JNull

\* No call has been made on the cache in this step.
NoCacheCall == [op |-> "none", key |-> "", arg |-> Undefined, ret |-> Undefined]

\* A cache made by createCache() that nothing has used.
InitCache ==
    /\ cache = <<>>
    /\ ttl = Infinity
    /\ cacheCall = NoCacheCall

Init == InitSocket /\ InitApi /\ InitPanels /\ InitCache

\* The hook on its own, mounted by a component that only selects the pair.
Next ==
    \/ OnOpen /\ UNCHANGED <<apiVars, panelVars, cacheVars, modeVars>>
    \/ \E data \in Frames : OnMessage(data) /\ UNCHANGED <<apiVars, panelVars, cacheVars, modeVars>>
    \/ \E p \in Pairs : HandlePairChange(p) /\ UNCHANGED <<apiVars, panelVars, cacheVars, modeVars>>
    \/ OnClose /\ UNCHANGED <<apiVars, panelVars, cacheVars, modeVars>>
    \/ Unmount /\ UNCHANGED <<apiVars, panelVars, cacheVars, modeVars>>
    \/ OnCloseAfterClose /\ UNCHANGED <<apiVars, panelVars, cacheVars, modeVars>>

Spec == Init /\ [][Next]_vars

(***************************************************************************)
(* useDashboardController: the stream mode and the flags derived from it.  *)
(***************************************************************************)
ShowBoth_Either ==
    (streamMode = "all" \/ streamMode = "candles")
        \/ (streamMode = "all" \/ streamMode = "orderbook")

ShowCandles == streamMode = "all" \/ streamMode = "candles"
ShowOrderBook == streamMode = "all" \/ streamMode = "orderbook"
ShowBoth == ShowCandles /\ ShowOrderBook

\* handleStreamModeChange(mode) with a mode other than the selected one:
\* setStreamMode and the re-render; no effect depends on the mode.
HandleStreamModeChange(mode) ==
    /\ mounted
    /\ mode # streamMode
    /\ streamMode' = mode
    /\ event' = NoEvent
    /\ outcome' = "returned"
    /\ UNCHANGED <<pair, mounted, readyState, currentPairRef, updatedCandle,
                   orderBook, sent, closeCalls>>
    /\ UNCHANGED <<apiVars, panelVars, cacheVars>>

\* The controller and the hook, mounted by a component that selects the
\* pair and the stream mode and renders no panel.
NextController ==
    \/ OnOpen /\ UNCHANGED <<apiVars, panelVars, cacheVars, modeVars>>
    \/ \E data \in Frames : OnMessage(data) /\ UNCHANGED <<apiVars, panelVars, cacheVars, modeVars>>
    \/ \E p \in Pairs : HandlePairChange(p) /\ UNCHANGED <<apiVars, panelVars, cacheVars, modeVars>>
    \/ \E mode \in StreamModes : HandleStreamModeChange(mode)
    \/ OnClose /\ UNCHANGED <<apiVars, panelVars, cacheVars, modeVars>>
    \/ Unmount /\ UNCHANGED <<apiVars, panelVars, cacheVars, modeVars>>
    \/ OnCloseAfterClose /\ UNCHANGED <<apiVars, panelVars, cacheVars, modeVars>>

SpecController == Init /\ [][NextController]_vars

(***************************************************************************)
(* cryptoApiService: apiFetch, fetchCandles, fetchOrderBook and the two    *)
(* invalidation functions.                                                 *)
(***************************************************************************)
\* A JSON array.
JArray(items) == [t |-> "array", items |-> items]

\* if (v) in JavaScript.
Truthy(v) ==
    /\ v.t \notin {"undefined", "null"}
    /\ v.t = "number" => v.n # 0
    /\ v.t = "string" => v.s # ""

\* Closing price that tells the histories of the pairs apart.
PriceOf(p) ==
    CASE p = "BTC-USDT" -> 1
      [] p = "ETH-USDT" -> 2
      [] OTHER -> 3

\* The candles the server holds for a pair, oldest first.
History(p) == <<Candle(1000, PriceOf(p)), Candle(2100, PriceOf(p))>>

\* What the network does with one GET: fetch() rejects, or it resolves to a
\* Response with a status and a body text.
NetworkFailure == [t |-> "TypeError", status |-> 0, body |-> NotJsonText]
Response(status, body) == [t |-> "Response", status |-> status, body |-> body]

\* Response.ok
ResponseOk(response) == response.status >= 200 /\ response.status <= 299

HttpStatuses == {200, 404, 500}

\* Bodies a server can send with a 2xx status: the resource, or text that
\* is not JSON.
Bodies(op, p) ==
    IF op = "fetchCandles"
      THEN {JsonText(JArray(History(p))), NotJsonText}
      ELSE {JsonText(OrderBook(p, 0)), NotJsonText}

NetworkOutcomes(op, p) ==
    {NetworkFailure}
      \cup {Response(200, b) : b \in Bodies(op, p)}
      \cup {Response(s, NotJsonText) : s \in HttpStatuses \ {200}}

\* The path a service function requests.
CandlesPath(p) == "/api/candles/" \o p
OrderBookPath(p) == "/api/orderbook/" \o p
PathOf(op, p) == IF op = "fetchCandles" THEN CandlesPath(p) ELSE OrderBookPath(p)

\* An exception: its class, the text its message starts with, the HTTP
\* status its message quotes (0 when it quotes none), and the path.
JError(name, message, status, path) ==
    [t |-> "Error", name |-> name, message |-> message, status |-> status,
     path |-> path]

\* A settled promise.
Fulfilled(v) == [status |-> "fulfilled", value |-> v]
Rejected(e) == [status |-> "rejected", value |-> e]

ApiFetch_DecodeErrorAsHttp(path, out) ==
    IF out.t # "Response" THEN Rejected(JError("Error", "Network error", 0, path))
    ELSE IF ~ResponseOk(out) \/ JSONParse(out.body).threw
      THEN Rejected(JError("Error", "HTTP", out.status, path))
      ELSE Fulfilled(JSONParse(out.body).value)

\* apiFetch(path), given what the network did with the request.
ApiFetch(path, out) ==
    IF out.t # "Response"
      THEN Rejected(JError("Error", "Network error", 0, path))
      ELSE IF ~ResponseOk(out)
             THEN Rejected(JError("Error", "HTTP", out.status, path))
             ELSE LET parsed == JSONParse(out.body)
                  IN  IF parsed.threw
                        THEN Rejected(JError("SyntaxError", "Unexpected token",
                                             0, path))
                        ELSE Fulfilled(parsed.value)

\* const candleCache = createCache<Candle[]>(): ttlMs takes its default.
CandleCacheTtl == Infinity

\* `candles:${pair}`
CacheKey(p) == "candles:" \o p

\* fetchCandles up to its await: the cache read, whether it is a hit, and
\* the store the read leaves behind.
FetchCandlesRead(store, nowMs, p) ==
    LET got == CacheGet(store, CacheKey(p), CandleCacheTtl, nowMs)
    IN  [hit |-> Truthy(got.data), value |-> got.data, store |-> got.store]

FetchCandlesSettled_NoStore(store, nowMs, p, result) == store

FetchCandlesSettled_StoresRejection(store, nowMs, p, result) ==
    CacheSet(store, CacheKey(p), result.value, nowMs)

\* fetchCandles after its await: a fulfilled apiFetch is written to the
\* cache, a rejected one propagates and writes nothing.
FetchCandlesSettled(store, nowMs, p, result) ==
    IF result.status = "fulfilled"
      THEN CacheSet(store, CacheKey(p), result.value, nowMs)
      ELSE store

SettledStore_EveryResult(store, nowMs, req, result) ==
    FetchCandlesSettled(store, nowMs, req.pair, result)

SettledStore_DropsSuperseded(store, nowMs, req, result) ==
    IF req.op = "fetchCandles" /\ ~req.cancelled
      THEN FetchCandlesSettled(store, nowMs, req.pair, result)
      ELSE store

\* The store after the service function awaiting req has run to its end:
\* only fetchCandles touches the cache.
SettledStore(store, nowMs, req, result) ==
    IF req.op = "fetchCandles"
      THEN FetchCandlesSettled(store, nowMs, req.pair, result)
      ELSE store

\* One apiFetch call in flight: the function that made it, the caller that
\* awaits it, and the caller's `cancelled` flag.
Request(op, p, by) == [op |-> op, pair |-> p, by |-> by, cancelled |-> FALSE]

\* What a service function did in a step: "hit" (returned the cached
\* value), "request" (called fetch), "fulfilled" / "rejected" (its promise
\* settled with value after the network did `network`), "invalidated",
\* "cleared".
ApiEvent(op, p, kind, value, network) ==
    [op |-> op, pair |-> p, kind |-> kind, value |-> value,
     network |-> network]

\* The bag of requests in flight with one more, and with one fewer.
WithRequest(bag, req) == bag (+) SetToBag({req})
WithoutRequest(bag, req) == bag (-) SetToBag({req})

(***************************************************************************)
(* The service called directly, as its unit tests call it: each step is    *)
(* one call of an exported function, the settling of one network request,  *)
(* or the passing of time.                                                 *)
(***************************************************************************)
CallFetchCandles_Deduplicates(p) ==
    LET read == FetchCandlesRead(candleCache, now, p)
        req == Request("fetchCandles", p, "caller")
    IN  /\ ~read.hit => BagCardinality(inflight) < MaxCalls
        /\ candleCache' = read.store
        /\ IF read.hit
             THEN /\ inflight' = inflight
                  /\ apiCalls' = <<ApiEvent("fetchCandles", p, "hit", read.value,
                                            NoEvent)>>
             ELSE /\ inflight' = IF BagIn(req, inflight) THEN inflight
                                  ELSE WithRequest(inflight, req)
                  /\ apiCalls' = <<ApiEvent("fetchCandles", p, "request",
                                            Undefined, NoEvent)>>
        /\ UNCHANGED now

\* fetchCandles(p) up to its first await, or to its return on a cache hit.
CallFetchCandles(p) ==
    LET read == FetchCandlesRead(candleCache, now, p)
    IN  /\ ~read.hit => BagCardinality(inflight) < MaxCalls
        /\ candleCache' = read.store
        /\ IF read.hit
             THEN /\ inflight' = inflight
                  /\ apiCalls' = <<ApiEvent("fetchCandles", p, "hit", read.value,
                                            NoEvent)>>
             ELSE /\ inflight' = WithRequest(inflight,
                                             Request("fetchCandles", p, "caller"))
                  /\ apiCalls' = <<ApiEvent("fetchCandles", p, "request",
                                            Undefined, NoEvent)>>
        /\ UNCHANGED now

\* fetchOrderBook(p) up to its await: always a network request.
CallFetchOrderBook(p) ==
    /\ BagCardinality(inflight) < MaxCalls
    /\ inflight' = WithRequest(inflight, Request("fetchOrderBook", p, "caller"))
    /\ apiCalls' = <<ApiEvent("fetchOrderBook", p, "request", Undefined, NoEvent)>>
    /\ UNCHANGED <<candleCache, now>>

\* The network settles a request in flight with out, and the service
\* function that awaits it runs to its end.
Settle(req, out) ==
    LET result == ApiFetch(PathOf(req.op, req.pair), out)
    IN  /\ BagIn(req, inflight)
        /\ req.by = "caller"
        /\ out \in NetworkOutcomes(req.op, req.pair)
        /\ candleCache' = SettledStore(candleCache, now, req, result)
        /\ inflight' = WithoutRequest(inflight, req)
        /\ apiCalls' = <<ApiEvent(req.op, req.pair, result.status, result.value,
                                  out)>>
        /\ UNCHANGED now

InvalidateCandleCache_Clears(p) ==
    /\ candleCache' = CacheClear(candleCache)
    /\ apiCalls' = <<ApiEvent("invalidateCandleCache", p, "invalidated",
                              Undefined, NoEvent)>>
    /\ UNCHANGED <<now, inflight>>

\* invalidateCandleCache(p)
InvalidateCandleCache(p) ==
    /\ candleCache' = CacheDelete(candleCache, CacheKey(p))
    /\ apiCalls' = <<ApiEvent("invalidateCandleCache", p, "invalidated",
                              Undefined, NoEvent)>>
    /\ UNCHANGED <<now, inflight>>

ClearCandleCache_KeepsOthers ==
    /\ candleCache' = CacheDelete(candleCache, CacheKey(DefaultPair))
    /\ apiCalls' = <<ApiEvent("clearCandleCache", DefaultPair, "cleared",
                              Undefined, NoEvent)>>
    /\ UNCHANGED <<now, inflight>>

\* clearCandleCache(); it takes no pair, the event records the default one.
ClearCandleCache ==
    /\ candleCache' = CacheClear(candleCache)
    /\ apiCalls' = <<ApiEvent("clearCandleCache", DefaultPair, "cleared",
                              Undefined, NoEvent)>>
    /\ UNCHANGED <<now, inflight>>

\* Time passes between two events.
Tick ==
    /\ now < MaxClock
    /\ now' = now + 1
    /\ apiCalls' = <<>>
    /\ UNCHANGED <<candleCache, inflight>>

NextFetch ==
    \/ \E p \in Pairs : CallFetchCandles(p) /\ UNCHANGED <<socketVars, panelVars, cacheVars, modeVars>>
    \/ \E p \in Pairs : CallFetchOrderBook(p) /\ UNCHANGED <<socketVars, panelVars, cacheVars, modeVars>>
    \/ \E req \in BagToSet(inflight) :
         \E out \in NetworkOutcomes(req.op, req.pair) :
            Settle(req, out) /\ UNCHANGED <<socketVars, panelVars, cacheVars, modeVars>>
    \/ \E p \in Pairs : InvalidateCandleCache(p) /\ UNCHANGED <<socketVars, panelVars, cacheVars, modeVars>>
    \/ ClearCandleCache /\ UNCHANGED <<socketVars, panelVars, cacheVars, modeVars>>
    \/ Tick /\ UNCHANGED <<socketVars, panelVars, cacheVars, modeVars>>

SpecFetch == Init /\ [][NextFetch]_vars

(***************************************************************************)
(* The chart: chartDataMapper, the candlestick series of lightweight-      *)
(* charts, and the data functions of useCandleChart.  A bar is a candle    *)
(* with its time in seconds.  The volume series is fed the same times by   *)
(* the same calls and is not modelled separately.                          *)
(***************************************************************************)
\* toChartTime: milliseconds to whole seconds.
ToChartTime(ms) == ms \div 1000

\* toCandlestickData
ToCandlestickData(candle) ==
    [time |-> ToChartTime(candle.time), close |-> candle.close]

\* mapCandlesToSeriesData
MapCandlesToSeriesData(candles) ==
    [i \in 1..Len(candles) |-> ToCandlestickData(candles[i])]

\* ISeriesApi.update(bar) throws when bar is older than the last bar.
SeriesUpdateThrows(data, bar) ==
    data # <<>> /\ bar.time < data[Len(data)].time

SeriesUpdate_AppendsOlder(data, bar) ==
    IF data # <<>> /\ bar.time = data[Len(data)].time
      THEN [data EXCEPT ![Len(data)] = bar]
      ELSE Append(data, bar)

\* ISeriesApi.update(bar): a bar with the time of the last bar replaces it,
\* a later bar is appended.
SeriesUpdate(data, bar) ==
    IF data = <<>> THEN <<bar>>
    ELSE IF bar.time = data[Len(data)].time
           THEN [data EXCEPT ![Len(data)] = bar]
           ELSE IF bar.time > data[Len(data)].time
                  THEN Append(data, bar)
                  ELSE data

\* setCandles(candles): replaces the data of the series, when there is one.
SetCandles(hasSeries, data, candles) ==
    IF ~hasSeries THEN data ELSE MapCandlesToSeriesData(candles.items)

UpdateCandle_AlwaysAppends(hasSeries, data, candle) ==
    IF ~hasSeries THEN data ELSE Append(data, ToCandlestickData(candle))

UpdateCandle_NoGuard(hasSeries, data, candle) ==
    SeriesUpdate(data, ToCandlestickData(candle))

\* updateCandle(candle): one live tick, when there is a series.
UpdateCandle(hasSeries, data, candle) ==
    IF ~hasSeries THEN data ELSE SeriesUpdate(data, ToCandlestickData(candle))

(***************************************************************************)
(* The panels of the dashboard: useCryptoCandleChartController and         *)
(* useOrderbookController, fed by the selected pair and by the outputs of  *)
(* useCryptoWebSocket.                                                     *)
(***************************************************************************)
\* a ?? b
Nullish(v) == v.t \in {"null", "undefined"}
Coalesce(a, b) == IF Nullish(a) THEN b ELSE a

\* displayedOrderBook = updatedOrderBook ?? orderBook
DisplayedOrderBook == Coalesce(orderBook, fetchedOrderBook)

CancelBy_Nothing(bag, by) == bag

\* The cleanup of a fetch effect: `cancelled = true` in the closure of
\* every call the panel `by` still awaits.
CancelBy(bag, by) ==
    LET flag(r) == IF r.by = by THEN [r EXCEPT !.cancelled = TRUE] ELSE r
        unflagged(r) == [r EXCEPT !.cancelled = FALSE]
    IN  [r \in {flag(q) : q \in BagToSet(bag)} |->
            IF r.by = by
              THEN CopiesIn(r, bag) + CopiesIn(unflagged(r), bag)
              ELSE CopiesIn(r, bag)]

CandlesFailed == JString("Failed to fetch candles")
OrderBookFailed == JString("Failed to fetch order book")

\* The frame makes socket.onmessage call setUpdatedCandle.
StoresCandle(data) ==
    LET parsed == JSONParse(data)
        msg == parsed.value
    IN  /\ ~parsed.threw
        /\ ~PropThrows(msg)
        /\ ~IsErrorMessage(msg)
        /\ PairMatches(msg, currentPairRef)
        /\ StrictEqStr(Prop(msg, "type"), "candle_update")

\* The live-candle effect runs updateCandle on the candle of the frame.
AppliesCandle(data) == StoresCandle(data) /\ Truthy(Prop(data.value, "candle"))

\* State after the first render and its effects: the stream client as in
\* InitSocket, the chart created but isReady not yet rendered (so the candle
\* effect has returned at its gate), and the order-book effect awaiting
\* fetchOrderBook for the default pair.
InitDashboard ==
    /\ InitSocket
    /\ candleCache = <<>>
    /\ now = 0
    /\ inflight = SetToBag({Request("fetchOrderBook", DefaultPair, "orderbook")})
    /\ apiCalls = <<>>
    /\ isReady = FALSE
    /\ candleSeriesRef = TRUE
    /\ series = <<>>
    /\ isLoading = FALSE
    /\ errorMessage = JNull
    /\ fetchedOrderBook = JNull
    /\ loading = TRUE
    /\ error = JNull
    /\ InitCache

\* load() of the candle effect for pair p, up to its first await or, on a
\* cache hit, to its end (the continuation runs as a microtask of the same
\* task).  bag holds the requests in flight after the cleanups have run.
StartLoad(p, bag) ==
    LET read == FetchCandlesRead(candleCache, now, p)
    IN  /\ candleCache' = read.store
        /\ IF read.hit
             THEN /\ inflight' = bag
                  /\ series' = SetCandles(candleSeriesRef, series, read.value)
                  /\ isLoading' = FALSE
             ELSE /\ inflight' = WithRequest(bag, Request("fetchCandles", p, "candles"))
                  /\ series' = series
                  /\ isLoading' = TRUE

\* The render after setIsReady(true): the candle effect passes its gate.
ChartReady ==
    /\ mounted
    /\ ~isReady
    /\ BagCardinality(inflight) < MaxInFlight
    /\ isReady' = TRUE
    /\ StartLoad(pair, inflight)
    /\ event' = NoEvent
    /\ outcome' = "returned"
    /\ UNCHANGED <<pair, mounted, readyState, currentPairRef, updatedCandle,
                   orderBook, sent, closeCalls>>
    /\ UNCHANGED <<now, apiCalls, candleSeriesRef, errorMessage, orderBookVars>>

SelectPair_FetchesPreviousPair(p) ==
    /\ HandlePairChange(p)
    /\ BagCardinality(inflight) + 2 <= MaxInFlight
    /\ LET remaining == CancelBy(CancelBy(inflight, "candles"), "orderbook")
           withBook == WithRequest(remaining, Request("fetchOrderBook", pair, "orderbook"))
       IN  IF isReady
             THEN StartLoad(p, withBook)
             ELSE /\ inflight' = withBook
                  /\ UNCHANGED <<candleCache, series, isLoading>>
    /\ loading' = TRUE
    /\ error' = JNull
    /\ UNCHANGED <<now, apiCalls, isReady, candleSeriesRef, errorMessage,
                   fetchedOrderBook>>

SelectPair_IgnoresReady(p) ==
    /\ HandlePairChange(p)
    /\ BagCardinality(inflight) + 2 <= MaxInFlight
    /\ LET remaining == CancelBy(CancelBy(inflight, "candles"), "orderbook")
           withBook == WithRequest(remaining, Request("fetchOrderBook", p, "orderbook"))
       IN  IF TRUE
             THEN StartLoad(p, withBook)
             ELSE /\ inflight' = withBook
                  /\ UNCHANGED <<candleCache, series, isLoading>>
    /\ loading' = TRUE
    /\ error' = JNull
    /\ UNCHANGED <<now, apiCalls, isReady, candleSeriesRef, errorMessage,
                   fetchedOrderBook>>

\* A pair is selected: handlePairChange, the render, the cleanups of the
\* two fetch effects, then the candle effect, the order-book effect and the
\* pair effect of the stream client.
SelectPair(p) ==
    /\ HandlePairChange(p)
    /\ BagCardinality(inflight) + 2 <= MaxInFlight
    /\ LET remaining == CancelBy(CancelBy(inflight, "candles"), "orderbook")
           withBook == WithRequest(remaining, Request("fetchOrderBook", p, "orderbook"))
       IN  IF isReady
             THEN StartLoad(p, withBook)
             ELSE /\ inflight' = withBook
                  /\ UNCHANGED <<candleCache, series, isLoading>>
    /\ loading' = TRUE
    /\ error' = JNull
    /\ UNCHANGED <<now, apiCalls, isReady, candleSeriesRef, errorMessage,
                   fetchedOrderBook>>

SettlePanel_Uncaught(req, out) ==
    LET result == ApiFetch(PathOf(req.op, req.pair), out)
        ok == result.status = "fulfilled"
    IN  /\ BagIn(req, inflight)
        /\ req.by \in {"candles", "orderbook"}
        /\ out \in NetworkOutcomes(req.op, req.pair)
        /\ candleCache' = SettledStore(candleCache, now, req, result)
        /\ inflight' = WithoutRequest(inflight, req)
        /\ IF req.cancelled
             THEN UNCHANGED panelVars
           ELSE IF req.by = "candles"
             THEN /\ series' = IF ok THEN SetCandles(candleSeriesRef, series, result.value)
                               ELSE series
                  /\ errorMessage' = errorMessage
                  /\ isLoading' = IF ok THEN FALSE ELSE isLoading
                  /\ UNCHANGED <<isReady, candleSeriesRef, orderBookVars>>
             ELSE /\ fetchedOrderBook' = IF ok THEN result.value ELSE fetchedOrderBook
                  /\ error' = error
                  /\ loading' = IF ok THEN FALSE ELSE loading
                  /\ UNCHANGED chartVars
        /\ event' = NoEvent
        /\ outcome' = IF ok \/ req.cancelled THEN "returned" ELSE "threw"
        /\ UNCHANGED <<pair, mounted, readyState, currentPairRef, updatedCandle,
                       orderBook, sent, closeCalls, now, apiCalls>>

SettlePanel_LateResultEndsLoading(req, out) ==
    LET result == ApiFetch(PathOf(req.op, req.pair), out)
        ok == result.status = "fulfilled"
    IN  /\ BagIn(req, inflight)
        /\ req.by \in {"candles", "orderbook"}
        /\ out \in NetworkOutcomes(req.op, req.pair)
        /\ candleCache' = SettledStore(candleCache, now, req, result)
        /\ inflight' = WithoutRequest(inflight, req)
        /\ IF req.cancelled
             THEN /\ isLoading' = IF req.by = "candles" THEN FALSE ELSE isLoading
                  /\ loading' = IF req.by = "orderbook" THEN FALSE ELSE loading
                  /\ UNCHANGED <<isReady, candleSeriesRef, series, errorMessage, fetchedOrderBook,
                                 error>>
           ELSE IF req.by = "candles"
             THEN /\ series' = IF ok THEN SetCandles(candleSeriesRef, series, result.value)
                               ELSE series
                  /\ errorMessage' = IF ok THEN errorMessage ELSE CandlesFailed
                  /\ isLoading' = FALSE
                  /\ UNCHANGED <<isReady, candleSeriesRef, orderBookVars>>
             ELSE /\ fetchedOrderBook' = IF ok THEN result.value ELSE fetchedOrderBook
                  /\ error' = IF ok THEN error ELSE OrderBookFailed
                  /\ loading' = FALSE
                  /\ UNCHANGED chartVars
        /\ event' = NoEvent
        /\ outcome' = "returned"
        /\ UNCHANGED <<pair, mounted, readyState, currentPairRef, updatedCandle,
                       orderBook, sent, closeCalls, now, apiCalls>>

\* The network settles a request of a panel: the service function runs to
\* its end, then the continuation of load() or fetchData().
SettlePanel(req, out) ==
    LET result == ApiFetch(PathOf(req.op, req.pair), out)
        ok == result.status = "fulfilled"
    IN  /\ BagIn(req, inflight)
        /\ req.by \in {"candles", "orderbook"}
        /\ out \in NetworkOutcomes(req.op, req.pair)
        /\ candleCache' = SettledStore(candleCache, now, req, result)
        /\ inflight' = WithoutRequest(inflight, req)
        /\ IF req.cancelled
             THEN UNCHANGED panelVars
           ELSE IF req.by = "candles"
             THEN /\ series' = IF ok THEN SetCandles(candleSeriesRef, series, result.value)
                               ELSE series
                  /\ errorMessage' = IF ok THEN errorMessage ELSE CandlesFailed
                  /\ isLoading' = FALSE
                  /\ UNCHANGED <<isReady, candleSeriesRef, orderBookVars>>
             ELSE /\ fetchedOrderBook' = IF ok THEN result.value ELSE fetchedOrderBook
                  /\ error' = IF ok THEN error ELSE OrderBookFailed
                  /\ loading' = FALSE
                  /\ UNCHANGED chartVars
        /\ event' = NoEvent
        /\ outcome' = "returned"
        /\ UNCHANGED <<pair, mounted, readyState, currentPairRef, updatedCandle,
                       orderBook, sent, closeCalls, now, apiCalls>>

\* socket.onopen, with the panels mounted: they do not react to it.
OpenPanels ==
    /\ OnOpen
    /\ UNCHANGED <<apiVars, panelVars>>

MessagePanels_PatchesCache(data) ==
    /\ OnMessage(data)
    /\ AppliesCandle(data) =>
          ~SeriesUpdateThrows(series, ToCandlestickData(Prop(data.value, "candle")))
    /\ series' = IF AppliesCandle(data)
                   THEN UpdateCandle(candleSeriesRef, series, Prop(data.value, "candle"))
                   ELSE series
    /\ candleCache' =
          IF AppliesCandle(data) /\ CacheKey(pair) \in DOMAIN candleCache
            THEN [candleCache EXCEPT ![CacheKey(pair)].data =
                     JArray(Append(@.items, Prop(data.value, "candle")))]
            ELSE candleCache
    /\ UNCHANGED <<now, inflight, apiCalls, isReady, candleSeriesRef, isLoading,
                   errorMessage, orderBookVars>>

\* socket.onmessage, the render, and the live-candle effect, which applies
\* a stored candle to the chart.
MessagePanels(data) ==
    /\ OnMessage(data)
    /\ AppliesCandle(data) =>
          ~SeriesUpdateThrows(series, ToCandlestickData(Prop(data.value, "candle")))
    /\ series' = IF AppliesCandle(data)
                   THEN UpdateCandle(candleSeriesRef, series, Prop(data.value, "candle"))
                   ELSE series
    /\ UNCHANGED <<apiVars, isReady, candleSeriesRef, isLoading, errorMessage,
                   orderBookVars>>

\* What unmounting does to the panels: the cleanups flag every awaited call
\* and remove the chart.
PanelsTornDown ==
    /\ inflight' = CancelBy(CancelBy(inflight, "candles"), "orderbook")
    /\ series' = <<>>
    /\ candleSeriesRef' = FALSE
    /\ isReady' = FALSE
    /\ UNCHANGED <<candleCache, now, apiCalls, isLoading, errorMessage,
                   orderBookVars>>

\* socket.onmessage with a candle older than the last bar: series.update
\* throws inside the live-candle effect, no error boundary catches it, and
\* React unmounts the dashboard, running every cleanup.
MessageCrash(data) ==
    /\ readyState = "OPEN"
    /\ mounted
    /\ AppliesCandle(data)
    /\ SeriesUpdateThrows(series, ToCandlestickData(Prop(data.value, "candle")))
    /\ event' = data
    /\ outcome' = "threw"
    /\ updatedCandle' = Prop(data.value, "candle")
    /\ mounted' = FALSE
    /\ readyState' = "CLOSING"
    /\ closeCalls' = closeCalls + 1
    /\ PanelsTornDown
    /\ UNCHANGED <<pair, currentPairRef, orderBook, sent>>

\* socket.onclose, with the panels mounted: they do not react to it.
ClosePanels ==
    /\ OnClose
    /\ UNCHANGED <<apiVars, panelVars>>

\* The dashboard is unmounted.
UnmountPanels ==
    /\ mounted
    /\ Unmount
    /\ PanelsTornDown

\* socket.onclose at the end of the handshake, after the unmount.
CloseAfterUnmount ==
    /\ OnCloseAfterClose
    /\ UNCHANGED <<apiVars, panelVars>>

\* The frames the stream client passes on to the panels or drops by pair,
\* and a frame of each kind it ignores.
PanelFrames ==
    {CandleUpdateFrame(p, c) : p \in Pairs, c \in LiveCandles}
      \cup {OrderBookUpdateFrame(p, OrderBook(p, 1)) : p \in Pairs}
      \cup {OrderBookUpdateFrame(p, Undefined) : p \in Pairs}
      \cup {ErrorFrame, NotJsonText}

NextDashboard ==
    \/ ChartReady /\ UNCHANGED <<cacheVars, modeVars>>
    \/ \E p \in Pairs : SelectPair(p) /\ UNCHANGED <<cacheVars, modeVars>>
    \/ \E req \in BagToSet(inflight) :
         \E out \in NetworkOutcomes(req.op, req.pair) : SettlePanel(req, out) /\ UNCHANGED <<cacheVars, modeVars>>
    \/ OpenPanels /\ UNCHANGED <<cacheVars, modeVars>>
    \/ \E data \in PanelFrames : MessagePanels(data) /\ UNCHANGED <<cacheVars, modeVars>>
    \/ \E data \in PanelFrames : MessageCrash(data) /\ UNCHANGED <<cacheVars, modeVars>>
    \/ ClosePanels /\ UNCHANGED <<cacheVars, modeVars>>
    \/ UnmountPanels /\ UNCHANGED <<cacheVars, modeVars>>
    \/ CloseAfterUnmount /\ UNCHANGED <<cacheVars, modeVars>>

\* The whole dashboard.
SpecDashboard == InitDashboard /\ [][NextDashboard]_vars

\* The dashboard while the stream is still connecting: the steps of the
\* two panels and of the network that serves them.
NextPanels ==
    \/ ChartReady /\ UNCHANGED <<cacheVars, modeVars>>
    \/ \E p \in Pairs : SelectPair(p) /\ UNCHANGED <<cacheVars, modeVars>>
    \/ \E req \in BagToSet(inflight) :
         \E out \in NetworkOutcomes(req.op, req.pair) : SettlePanel(req, out) /\ UNCHANGED <<cacheVars, modeVars>>
    \/ UnmountPanels /\ UNCHANGED <<cacheVars, modeVars>>

SpecPanels == InitDashboard /\ [][NextPanels]_vars

\* The frames that reach, or are kept from, the order-book panel.
OrderBookFrames ==
    {OrderBookUpdateFrame(p, OrderBook(p, 1)) : p \in Pairs}
      \cup {OrderBookUpdateFrame(p, Undefined) : p \in Pairs}

\* The dashboard while the chart has not become ready: the steps of the
\* stream client and of the order-book panel, which read and write nothing
\* of the chart panel.
NextOrderBook ==
    \/ \E p \in Pairs : SelectPair(p) /\ UNCHANGED <<cacheVars, modeVars>>
    \/ \E req \in BagToSet(inflight) :
         \E out \in NetworkOutcomes(req.op, req.pair) : SettlePanel(req, out) /\ UNCHANGED <<cacheVars, modeVars>>
    \/ OpenPanels /\ UNCHANGED <<cacheVars, modeVars>>
    \/ \E data \in OrderBookFrames : MessagePanels(data) /\ UNCHANGED <<cacheVars, modeVars>>
    \/ ClosePanels /\ UNCHANGED <<cacheVars, modeVars>>
    \/ UnmountPanels /\ UNCHANGED <<cacheVars, modeVars>>
    \/ CloseAfterUnmount /\ UNCHANGED <<cacheVars, modeVars>>

SpecOrderBook == InitDashboard /\ [][NextOrderBook]_vars

\* The frames that reach, or are kept from, the chart panel.
ChartFrames == {CandleUpdateFrame(p, c) : p \in Pairs, c \in LiveCandles}

\* The dashboard while the pair it started with stays selected: the steps
\* of the stream client, of the network and of the two panels.
NextChart ==
    \/ ChartReady /\ UNCHANGED <<cacheVars, modeVars>>
    \/ \E req \in BagToSet(inflight) :
         \E out \in NetworkOutcomes(req.op, req.pair) : SettlePanel(req, out) /\ UNCHANGED <<cacheVars, modeVars>>
    \/ OpenPanels /\ UNCHANGED <<cacheVars, modeVars>>
    \/ \E data \in ChartFrames : MessagePanels(data) /\ UNCHANGED <<cacheVars, modeVars>>
    \/ \E data \in ChartFrames : MessageCrash(data) /\ UNCHANGED <<cacheVars, modeVars>>
    \/ ClosePanels /\ UNCHANGED <<cacheVars, modeVars>>
    \/ UnmountPanels /\ UNCHANGED <<cacheVars, modeVars>>
    \/ CloseAfterUnmount /\ UNCHANGED <<cacheVars, modeVars>>

SpecChart == InitDashboard /\ [][NextChart]_vars

(***************************************************************************)
(* The data functions of useCandleChart on their own, called by a          *)
(* component that passes histories and live candles as the candle          *)
(* controller does.                                                        *)
(***************************************************************************)
\* Live candles of every period around the end of a history, at two prices.
SeriesCandles ==
    {Candle(time, close) : time \in {1000, 2100, 2160, 3100, 4000},
                           close \in {5, 7}}

\* A mounted chart showing the history of some pair, or a component that
\* rendered no container, so that the init effect created no chart.
InitSeries ==
    /\ InitSocket
    /\ InitApi
    /\ \/ /\ isReady = TRUE
          /\ candleSeriesRef = TRUE
          /\ series \in {MapCandlesToSeriesData(History(p)) : p \in Pairs}
       \/ /\ isReady = FALSE
          /\ candleSeriesRef = FALSE
          /\ series = <<>>
    /\ isLoading = FALSE
    /\ errorMessage = JNull
    /\ fetchedOrderBook = JNull
    /\ loading = FALSE
    /\ error = JNull
    /\ InitCache

\* setCandles(candles) with the history of pair p.
LoadHistory(p) ==
    /\ series' = SetCandles(candleSeriesRef, series, JArray(History(p)))
    /\ outcome' = "returned"
    /\ UNCHANGED <<pair, mounted, readyState, currentPairRef, updatedCandle,
                   orderBook, sent, closeCalls, event>>
    /\ UNCHANGED <<apiVars, isReady, candleSeriesRef, isLoading, errorMessage,
                   orderBookVars>>

\* A new live candle is passed down and the effect calls updateCandle; a
\* candle older than the last bar makes series.update throw.
ApplyLive(candle) ==
    /\ candle # updatedCandle
    /\ updatedCandle' = candle
    /\ series' = UpdateCandle(candleSeriesRef, series, candle)
    /\ outcome' = IF candleSeriesRef
                       /\ SeriesUpdateThrows(series, ToCandlestickData(candle))
                    THEN "threw" ELSE "returned"
    /\ UNCHANGED <<pair, mounted, readyState, currentPairRef, orderBook, sent,
                   closeCalls, event>>
    /\ UNCHANGED <<apiVars, isReady, candleSeriesRef, isLoading, errorMessage,
                   orderBookVars>>

\* The component is unmounted: the cleanup of the init effect removes the
\* chart and clears the refs.
UnmountChart ==
    /\ candleSeriesRef
    /\ mounted' = FALSE
    /\ candleSeriesRef' = FALSE
    /\ isReady' = FALSE
    /\ series' = <<>>
    /\ outcome' = "returned"
    /\ UNCHANGED <<pair, readyState, currentPairRef, updatedCandle, orderBook,
                   sent, closeCalls, event>>
    /\ UNCHANGED <<apiVars, isLoading, errorMessage, orderBookVars>>

NextSeries ==
    \/ UnmountChart /\ UNCHANGED <<cacheVars, modeVars>>
    \/ \E p \in Pairs : LoadHistory(p) /\ UNCHANGED <<cacheVars, modeVars>>
    \/ \E candle \in SeriesCandles : ApplyLive(candle) /\ UNCHANGED <<cacheVars, modeVars>>

SpecSeries == InitSeries /\ [][NextSeries]_vars

(***************************************************************************)
(* createCache on its own: a caller constructs one cache with some ttlMs   *)
(* and calls its five functions while the clock moves.                     *)
(***************************************************************************)
\* A boolean, and an object known by its reference.
JBoolean(b) == [t |-> "boolean", b |-> b]
JObject(ref) == [t |-> "object", ref |-> ref]

\* The keys and the values the caller uses; undefined is a value too.
CacheKeys == {"k", "x"}
CacheValues == {JObject(1), JObject(2), Undefined}

\* The ttlMs the cache may be created with; createCache() means Infinity.
Ttls == {Millis(0), Millis(1), Infinity}

CacheCall(op, key, arg, ret) == [op |-> op, key |-> key, arg |-> arg, ret |-> ret]

\* After `const cache = createCache(ttlMs)`.
InitCreateCache ==
    /\ InitSocket
    /\ InitApi
    /\ InitPanels
    /\ cache = <<>>
    /\ ttl \in Ttls
    /\ cacheCall = NoCacheCall

\* cache.get(key)
CallGet(key) ==
    LET read == CacheGet(cache, key, ttl, now)
    IN  /\ cache' = read.store
        /\ cacheCall' = CacheCall("get", key, Undefined, read.data)
        /\ UNCHANGED <<ttl, now>>

\* cache.set(key, data)
CallSet(key, data) ==
    /\ cache' = CacheSet(cache, key, data, now)
    /\ cacheCall' = CacheCall("set", key, data, Undefined)
    /\ UNCHANGED <<ttl, now>>

\* cache.has(key)
CallHas(key) ==
    LET read == CacheHas(cache, key, ttl, now)
    IN  /\ cache' = read.store
        /\ cacheCall' = CacheCall("has", key, Undefined, JBoolean(read.result))
        /\ UNCHANGED <<ttl, now>>

\* cache.delete(key)
CallDelete(key) ==
    /\ cache' = CacheDelete(cache, key)
    /\ cacheCall' = CacheCall("delete", key, Undefined, Undefined)
    /\ UNCHANGED <<ttl, now>>

\* cache.clear()
CallClear ==
    /\ cache' = CacheClear(cache)
    /\ cacheCall' = CacheCall("clear", "", Undefined, Undefined)
    /\ UNCHANGED <<ttl, now>>

\* Date.now() moves, forward or (the wall clock being adjusted) backward.
ClockMoves(t) ==
    /\ t # now
    /\ now' = t
    /\ cacheCall' = NoCacheCall
    /\ UNCHANGED <<cache, ttl>>

CacheIdle ==
    UNCHANGED <<socketVars, candleCache, inflight, apiCalls, panelVars, modeVars>>

NextCache ==
    \/ \E key \in CacheKeys : CallGet(key) /\ CacheIdle
    \/ \E key \in CacheKeys, data \in CacheValues : CallSet(key, data) /\ CacheIdle
    \/ \E key \in CacheKeys : CallHas(key) /\ CacheIdle
    \/ \E key \in CacheKeys : CallDelete(key) /\ CacheIdle
    \/ CallClear /\ CacheIdle
    \/ \E t \in 0..MaxCacheClock : ClockMoves(t) /\ CacheIdle

SpecCache == InitCreateCache /\ [][NextCache]_vars

(***************************************************************************)
(* Properties of the stream client.                                        *)
(***************************************************************************)
\* The candle_update and orderbook_update frames, with or without payload.
UpdateFrames ==
    {CandleUpdateFrame(p, c) : p \in Pairs, c \in LiveCandles \cup {Undefined}}
      \cup {OrderBookUpdateFrame(p, d) :
              p \in Pairs, d \in {OrderBook(q, 1) : q \in Pairs} \cup {Undefined}}

\* The pair an update frame is for.
FramePair(data) == data.value.pair.s

\* The pairs subscribed and not unsubscribed after the frames were sent.
RECURSIVE ActiveAfter(_)
ActiveAfter(frames) ==
    IF frames = <<>>
    THEN {}
    ELSE LET last == frames[Len(frames)]
             before == ActiveAfter(SubSeq(frames, 1, Len(frames) - 1))
         IN  IF last.type = "subscribe"
             THEN before \cup {last.pair}
             ELSE before \ {last.pair}

\* C1: a live candle or order-book update for pair P is never applied to, or
\* exposed as, the displayed data while the selected pair is Q # P: every
\* frame that changes updatedCandle or orderBook is for the pair selected at
\* that moment, and the order book the hook exposes is a snapshot of the
\* selected pair.
C1_LiveUpdateOnlyForSelectedPair ==
    [][ /\ (event' \in WellFormedFrames
             /\ (updatedCandle' # updatedCandle \/ orderBook' # orderBook))
            => FramePair(event') = pair'
        /\ orderBook'.t = "OrderBook" => orderBook'.pair.s = pair' ]_vars

\* C2: the subscribe frame sent on Connecting -> Open is for the pair selected
\* at that moment, and that pair is the one used for inbound filtering; a pair
\* change while the connection is not Open sends no frame.
C2_OpenSubscribesSelectedPair ==
    [][ /\ (readyState = "CONNECTING" /\ readyState' = "OPEN")
            => /\ sent' = Append(sent, Subscribe(pair))
               /\ currentPairRef' = pair
        /\ (readyState # "OPEN" /\ pair' # pair) => sent' = sent ]_vars

\* C3: switching the active pair from A (the pair the client holds as
\* current) to B # A while the connection is Open sends exactly
\* unsubscribe(A) then subscribe(B) and nothing else, and B becomes active.
C3_SwitchSendsUnsubscribeThenSubscribe ==
    [][ (readyState = "OPEN" /\ pair' # pair /\ pair' # currentPairRef)
          => /\ sent' = sent \o <<Unsubscribe(currentPairRef), Subscribe(pair')>>
             /\ currentPairRef' = pair' ]_vars

\* C3 witness: an open connection whose last two frames are the unsubscribe
\* of one pair and the subscribe of the selected, different pair.
C3_Witness ==
    /\ readyState = "OPEN"
    /\ Len(sent) = 3
    /\ sent[2] = Unsubscribe(DefaultPair)
    /\ sent[3] = Subscribe(pair)
    /\ pair # DefaultPair
    /\ currentPairRef = pair

\* C4: after every frame sent on the connection, at most one pair is
\* subscribed and not yet unsubscribed.
C4_AtMostOneActivePair ==
    \A k \in 0..Len(sent) : Cardinality(ActiveAfter(SubSeq(sent, 1, k))) <= 1

\* C4 witness: two pair switches have been sent after the first subscribe.
C4_Witness ==
    /\ Len(sent) = 5
    /\ sent[2].type = "unsubscribe"
    /\ sent[4].type = "unsubscribe"
    /\ sent[3].pair # sent[5].pair
    /\ ActiveAfter(sent) = {pair}

\* C5: every outbound frame is sent while the connection is Open.
C5_FramesSentOnlyWhenOpen ==
    [][ sent' # sent => readyState' = "OPEN" ]_vars

\* C5 witness: a pair change made while Connecting sent nothing, and the
\* connection, now Open, has sent its first frame.
C5_Witness ==
    /\ readyState = "OPEN"
    /\ Len(sent) = 1
    /\ pair # DefaultPair

\* C6: a candle_update or orderbook_update frame for a pair other than the
\* active one leaves updatedCandle and orderBook unchanged and sends nothing.
C6_OtherPairFrameDropped ==
    [][ (event' \in UpdateFrames /\ FramePair(event') # currentPairRef)
          => UNCHANGED <<updatedCandle, orderBook, sent>> ]_vars

\* C6 witness: a frame for another pair was just handled while a live candle
\* and a live order book of the active pair are held.
C6_Witness ==
    /\ event \in UpdateFrames
    /\ FramePair(event) # currentPairRef
    /\ updatedCandle \in LiveCandles
    /\ orderBook.t = "OrderBook"
    /\ orderBook.pair.s = currentPairRef

\* C7: a frame that is not a well-formed recognised message never makes the
\* handler throw and leaves updatedCandle, orderBook and the active pair
\* unchanged.
C7_MalformedFrameIsDiscarded ==
    [][ event' \in MalformedFrames
          => /\ outcome' # "threw"
             /\ UNCHANGED <<updatedCandle, orderBook, currentPairRef>> ]_vars

\* C8: an error-notification frame is logged as a warning whatever pair is
\* active, and leaves the connection Open and updatedCandle, orderBook, the
\* active pair and the sent frames unchanged.
C8_ErrorFrameOnlyWarns ==
    [][ event' = ErrorFrame
          => /\ outcome' = "warned"
             /\ readyState' = "OPEN"
             /\ UNCHANGED <<updatedCandle, orderBook, currentPairRef, sent,
                            closeCalls>> ]_vars

\* C8 witness: an error frame was just handled while a pair other than the
\* default one is active and live data is held.
C8_Witness ==
    /\ event = ErrorFrame
    /\ outcome = "warned"
    /\ readyState = "OPEN"
    /\ currentPairRef # DefaultPair
    /\ updatedCandle \in LiveCandles

\* C9: Closed is terminal: a closed (or closing) connection never becomes
\* Connecting or Open again, a connection that left Connecting never returns
\* to it, and no frame is sent once the connection has closed.
C9_ClosedIsTerminal ==
    [][ /\ readyState = "CLOSED" => readyState' = "CLOSED"
        /\ readyState \in {"CLOSING", "CLOSED"}
             => readyState' \in {"CLOSING", "CLOSED"} /\ sent' = sent
        /\ readyState # "CONNECTING" => readyState' # "CONNECTING" ]_vars

\* C9 witness: the connection was open, switched pairs, then closed remotely,
\* and a later pair change was made on the still mounted dashboard (the
\* selected pair is no longer the one recorded at the last switch).
C9_Witness ==
    /\ readyState = "CLOSED"
    /\ mounted
    /\ Len(sent) >= 3
    /\ pair # currentPairRef

\* C10: the transport is closed exactly once by teardown: socket.close() has
\* been called once when the dashboard is unmounted, never before and never
\* a second time.
C10_ClosedExactlyOnce ==
    closeCalls = IF mounted THEN 0 ELSE 1

\* C10 witness: the dashboard was unmounted, close() was called once, and the
\* connection, which had been open, is closed.
C10_Witness ==
    /\ ~mounted
    /\ closeCalls = 1
    /\ readyState = "CLOSED"
    /\ Len(sent) >= 1

(***************************************************************************)
(* Properties of the fetch client.                                         *)
(***************************************************************************)
\* The key the candles of a pair are cached under.
KeyOf(p) == "candles:" \o p

\* This step is the service function op, called for pair p, doing one of
\* the things in kinds.
ServiceStep(op, p, kinds) ==
    /\ Len(apiCalls') = 1
    /\ apiCalls'[1].op = op
    /\ apiCalls'[1].pair = p
    /\ apiCalls'[1].kind \in kinds

\* The previous step was the service function op for pair p.
JustDid(op, p) ==
    /\ Len(apiCalls) = 1
    /\ apiCalls[1].op = op
    /\ apiCalls[1].pair = p

Cached(p) == KeyOf(p) \in DOMAIN candleCache

\* This step called fetch once / not at all.
OneRequestIssued == BagCardinality(inflight') = BagCardinality(inflight) + 1
NoRequestIssued == inflight' = inflight

\* C16: once fetchCandles(P) has succeeded its value is cached; while the
\* entry is cached (it leaves the cache only by an invalidation) every
\* fetchCandles(P) returns that very value without a network request; a
\* pair Q that is not cached is requested from the network whatever else
\* is cached.
C16_CachedCandlesServedWithoutRequest ==
    [][\A p \in Pairs :
          /\ ServiceStep("fetchCandles", p, {"fulfilled"}) =>
                /\ KeyOf(p) \in DOMAIN candleCache'
                /\ candleCache'[KeyOf(p)].data = apiCalls'[1].value
          /\ ServiceStep("fetchCandles", p, {"hit", "request"}) =>
                IF Cached(p)
                  THEN /\ apiCalls'[1].kind = "hit"
                       /\ apiCalls'[1].value = candleCache[KeyOf(p)].data
                       /\ NoRequestIssued
                  ELSE /\ apiCalls'[1].kind = "request"
                       /\ OneRequestIssued
          /\ (Cached(p) /\ KeyOf(p) \notin DOMAIN candleCache') =>
                /\ Len(apiCalls') = 1
                /\ apiCalls'[1].kind \in {"invalidated", "cleared"}
          /\ (Cached(p) /\ KeyOf(p) \in DOMAIN candleCache'
                /\ candleCache'[KeyOf(p)].data # candleCache[KeyOf(p)].data) =>
                ServiceStep("fetchCandles", p, {"fulfilled"})
    ]_vars

\* A second fetchCandles for a cached pair has returned the cached value
\* while another pair is not cached.
C16_Witness ==
    /\ Len(apiCalls) = 1
    /\ apiCalls[1].kind = "hit"
    /\ apiCalls[1].value = JArray(History(apiCalls[1].pair))
    /\ \E q \in Pairs : ~Cached(q)

\* C17: every call of fetchOrderBook issues exactly one network request,
\* whatever the candle cache holds, and neither the call nor its settling
\* changes the candle cache.
C17_OrderBookNeverCached ==
    [][\A p \in Pairs :
          /\ ServiceStep("fetchOrderBook", p, {"hit", "request", "fulfilled",
                                               "rejected"}) =>
                /\ apiCalls'[1].kind # "hit"
                /\ candleCache' = candleCache
          /\ ServiceStep("fetchOrderBook", p, {"request"}) => OneRequestIssued
    ]_vars

\* An order book has been fetched from the network and delivered while the
\* candles of the same pair were cached.
C17_Witness ==
    /\ Len(apiCalls) = 1
    /\ apiCalls[1].op = "fetchOrderBook"
    /\ apiCalls[1].kind = "fulfilled"
    /\ Cached(apiCalls[1].pair)

\* C18: invalidateCandleCache(P) removes P's entry and no other; right
\* after it fetchCandles(P) issues a network request and fetchCandles(Q)
\* for a cached Q # P issues none; invalidating a pair that is not cached
\* changes nothing.
C18_InvalidateRemovesExactlyOnePair ==
    [][\A p \in Pairs :
          /\ ServiceStep("invalidateCandleCache", p, {"invalidated"}) =>
                /\ DOMAIN candleCache' = DOMAIN candleCache \ {KeyOf(p)}
                /\ \A k \in DOMAIN candleCache' : candleCache'[k] = candleCache[k]
          /\ JustDid("invalidateCandleCache", p) =>
                /\ ServiceStep("fetchCandles", p, {"hit", "request"}) =>
                      apiCalls'[1].kind = "request" /\ OneRequestIssued
                /\ \A q \in Pairs \ {p} :
                      (Cached(q) /\ ServiceStep("fetchCandles", q, {"hit", "request"}))
                         => apiCalls'[1].kind = "hit" /\ NoRequestIssued
    ]_vars

\* A pair has been invalidated while another pair stays cached.
C18_Witness ==
    /\ Len(apiCalls) = 1
    /\ apiCalls[1].kind = "invalidated"
    /\ ~Cached(apiCalls[1].pair)
    /\ \E q \in Pairs \ {apiCalls[1].pair} : Cached(q)

\* C19: clearCandleCache() leaves the candle cache empty, and right after
\* it fetchCandles issues a network request for every pair.
C19_ClearEmptiesTheCache ==
    [][/\ (Len(apiCalls') = 1 /\ apiCalls'[1].kind = "cleared") =>
             DOMAIN candleCache' = {}
       /\ (Len(apiCalls) = 1 /\ apiCalls[1].kind = "cleared") =>
             \A p \in Pairs :
                ServiceStep("fetchCandles", p, {"hit", "request"}) =>
                   apiCalls'[1].kind = "request" /\ OneRequestIssued
    ]_vars

\* The cache has been cleared while a request was in flight.
C19_Witness ==
    /\ Len(apiCalls) = 1
    /\ apiCalls[1].kind = "cleared"
    /\ DOMAIN candleCache = {}
    /\ BagCardinality(inflight) > 0

\* C20: a settled fetch is classified by what the network did: no response
\* gives a "Network error" failure, a status outside 200..299 an "HTTP"
\* failure quoting the status, a 2xx body that is not JSON a failure that
\* is neither of the two, and only a 2xx JSON body resolves, to its value.
C20_FailuresClassifiedByOutcome ==
    [][\A op \in {"fetchCandles", "fetchOrderBook"}, p \in Pairs :
          ServiceStep(op, p, {"fulfilled", "rejected"}) =>
             LET e == apiCalls'[1]
                 out == e.network
                 inRange == out.status >= 200 /\ out.status <= 299
             IN  /\ out.t = "TypeError" =>
                       e.kind = "rejected" /\ e.value.message = "Network error"
                 /\ (out.t = "Response" /\ ~inRange) =>
                       /\ e.kind = "rejected"
                       /\ e.value.message = "HTTP"
                       /\ e.value.status = out.status
                 /\ (out.t = "Response" /\ inRange /\ ~out.body.json) =>
                       /\ e.kind = "rejected"
                       /\ e.value.message \notin {"Network error", "HTTP"}
                 /\ (out.t = "Response" /\ inRange /\ out.body.json) =>
                       e.kind = "fulfilled" /\ e.value = out.body.value
    ]_vars

\* A 2xx response whose body is not JSON has rejected a fetch.
C20_Witness ==
    /\ Len(apiCalls) = 1
    /\ apiCalls[1].kind = "rejected"
    /\ apiCalls[1].network.t = "Response"
    /\ apiCalls[1].network.status = 200

(***************************************************************************)
(* Properties of the panels.                                               *)
(***************************************************************************)
\* The bars the chart shows for a list of candles.
BarsOf(candles) ==
    [i \in 1..Len(candles) |->
        [time |-> candles[i].time \div 1000, close |-> candles[i].close]]

\* Some bar of the series comes from the history of a pair other than p.
ShowsHistoryOfOtherThan(p) ==
    \E q \in Pairs \ {p} : \E i \in 1..Len(series), j \in 1..Len(History(q)) :
        series[i] = BarsOf(History(q))[j]

\* The order book the order-book controller exposes.
ExposedOrderBook ==
    IF orderBook.t \in {"null", "undefined"} THEN fetchedOrderBook ELSE orderBook

\* C11: when a request made for a pair that is no longer the selected one
\* settles, with a success or a failure, nothing changes in the state of
\* the candle controller, of the chart or of the order-book controller, so
\* what is displayed is not touched by the late result.
C11_LateResultIsDiscarded ==
    [][\A req \in BagToSet(inflight) :
          (req.pair # pair /\ inflight' = WithoutRequest(inflight, req)) =>
             /\ UNCHANGED <<isReady, series, isLoading, errorMessage>>
             /\ UNCHANGED <<fetchedOrderBook, loading, error, orderBook>>
    ]_vars

\* The candles of a pair that is no longer selected have arrived (they are
\* cached) and the chart, still loading the selected pair, shows nothing.
C11_Witness ==
    /\ mounted
    /\ isReady
    /\ isLoading
    /\ series = <<>>
    /\ \E q \in Pairs \ {pair} : Cached(q)

\* C12: once the loading indication of the selected pair has ended, the
\* order book exposed, fetched or live, is never a snapshot of another pair.
C12_NoStaleOrderBookAfterSwitch ==
    (mounted /\ ~loading /\ ExposedOrderBook.t = "OrderBook") =>
        ExposedOrderBook.pair.s = pair

\* C13: after the fetch for the selected pair has failed, neither the
\* exposed order book nor any bar of the chart belongs to another pair.
C13_FailedFetchLeavesNoStaleData ==
    mounted =>
        /\ (error # JNull /\ ~loading /\ ExposedOrderBook.t = "OrderBook") =>
               ExposedOrderBook.pair.s = pair
        /\ (errorMessage # JNull /\ ~isLoading) => ~ShowsHistoryOfOtherThan(pair)

LiveSnapshotArrives ==
    /\ event' \in {OrderBookUpdateFrame(p, OrderBook(p, 1)) : p \in Pairs}
    /\ event'.value.pair.s = currentPairRef

\* C15: the exposed order book is the live snapshot from the step that
\* receives one on; it then changes only by a newer live snapshot, in
\* particular not when a fetched snapshot arrives; while no live snapshot
\* has been received it is the fetched snapshot, or null.
C15_LiveSnapshotTakesPriority ==
    [][mounted' =>
          /\ LiveSnapshotArrives => ExposedOrderBook' = event'.value.data
          /\ (orderBook.t = "OrderBook" /\ ~LiveSnapshotArrives) =>
                ExposedOrderBook' = ExposedOrderBook
          /\ (orderBook = JNull /\ orderBook' = JNull) =>
                ExposedOrderBook' = fetchedOrderBook'
    ]_vars

(***************************************************************************)
(* Properties of the cache.                                                *)
(***************************************************************************)
\* The entry under k exists and now - storedAt <= ttl.
Fresh(k) ==
    /\ k \in DOMAIN cache
    /\ ttl.finite => now - cache[k].storedAt <= ttl.ms

\* This step is the call op(k) on the cache.
Calls(op, k) == cacheCall'.op = op /\ cacheCall'.key = k

\* Every entry but the one under k is as it was.
OthersKept(k) ==
    /\ DOMAIN cache' \ {k} = DOMAIN cache \ {k}
    /\ \A j \in DOMAIN cache \ {k} : cache'[j] = cache[j]

\* C22: get(k) returns the very value last stored under k when an entry
\* exists and now - storedAt <= ttl, and leaves the store as it is;
\* otherwise it returns undefined and the entry, if any, is gone from the
\* store.  set(k, v) stores v with the current time, and a key that is
\* absent stays absent until set(k).
C22_GetWithinTtlElseEvicts ==
    [][\A k \in CacheKeys :
          /\ Calls("get", k) =>
                IF Fresh(k)
                  THEN cacheCall'.ret = cache[k].data /\ cache' = cache
                  ELSE /\ cacheCall'.ret = Undefined
                       /\ k \notin DOMAIN cache'
                       /\ OthersKept(k)
          /\ Calls("set", k) =>
                /\ cache'[k] = [data |-> cacheCall'.arg, storedAt |-> now]
                /\ OthersKept(k)
          /\ (k \notin DOMAIN cache /\ ~Calls("set", k)) => k \notin DOMAIN cache'
    ]_vars

\* get(k) has returned the stored object exactly ttl milliseconds after it
\* was stored.
C22_Witness ==
    /\ cacheCall.op = "get"
    /\ cacheCall.ret = JObject(1)
    /\ ttl = Millis(1)
    /\ now = 1
    /\ cache[cacheCall.key] = [data |-> JObject(1), storedAt |-> 0]

\* C23: has(k) returns true exactly when get(k), called in the same state,
\* would return something other than undefined, and it leaves the store
\* that get(k) would leave.
C23_HasMirrorsGet ==
    [][\A k \in CacheKeys :
          Calls("has", k) =>
             LET got == CacheGet(cache, k, ttl, now)
             IN  /\ cacheCall'.ret = JBoolean(got.data # Undefined)
                 /\ cache' = got.store
    ]_vars

\* has("k") has returned false after the ttl and "k" is gone, while the
\* entry under "x", as old and not read since, is still in the store.
C23_Witness ==
    /\ cacheCall = CacheCall("has", "k", Undefined, JBoolean(FALSE))
    /\ ttl = Millis(0)
    /\ now > 0
    /\ "k" \notin DOMAIN cache
    /\ "x" \in DOMAIN cache
    /\ cache["x"].storedAt = 0

\* C24: delete(k) and clear() can be called in every state.  After
\* delete(k), get(k) returns undefined and every other entry is as it was;
\* after clear() the store is empty, so get returns undefined for every
\* key; and set on a store that is empty stores its value.
C24_DeleteAndClearAlwaysWork ==
    /\ [](\A k \in CacheKeys : ENABLED (CallDelete(k) /\ CacheIdle))
    /\ [](ENABLED (CallClear /\ CacheIdle))
    /\ [][\A k \in CacheKeys :
             /\ Calls("delete", k) =>
                   /\ k \notin DOMAIN cache'
                   /\ OthersKept(k)
             /\ cacheCall'.op = "clear" => DOMAIN cache' = {}
             /\ (cache = <<>> /\ Calls("set", k)) =>
                   cache' = [j \in {k} |-> [data |-> cacheCall'.arg, storedAt |-> now]]
       ]_vars

\* delete has been called for a key that was not stored, and the entry
\* under the other key is still there.
C24_Witness ==
    /\ cacheCall.op = "delete"
    /\ cacheCall.key = "k"
    /\ DOMAIN cache = {"x"}
    /\ cache["x"].data = JObject(2)

\* C25: in a cache created without a ttl, get(k) returns the stored value
\* whatever the clock says, and an entry leaves the store only by
\* delete(k) or clear().
C25_NoTtlNeverExpires ==
    [][ttl = [finite |-> FALSE, ms |-> 0] =>
          \A k \in DOMAIN cache :
             /\ Calls("get", k) => cacheCall'.ret = cache[k].data
             /\ Calls("has", k) => cacheCall'.ret = JBoolean(cache[k].data # Undefined)
             /\ k \notin DOMAIN cache' => (Calls("delete", k) \/ cacheCall'.op = "clear")
    ]_vars

\* With no ttl, get has returned the object stored at time 0 when the clock
\* is at its last value.
C25_Witness ==
    /\ ttl = [finite |-> FALSE, ms |-> 0]
    /\ now = MaxCacheClock
    /\ cacheCall.op = "get"
    /\ cacheCall.ret = JObject(1)
    /\ cache[cacheCall.key] = [data |-> JObject(1), storedAt |-> 0]

(***************************************************************************)
(* Properties of the panels: failures and loading.                         *)
(***************************************************************************)
\* C21: when the fetch a controller still awaits is rejected, whatever the
\* failure (network, HTTP status, body that is not JSON), the step ends
\* normally with the dashboard mounted, the controller's error is its
\* fixed short message and its loading flag is false; the other
\* controller is not touched.
C21_FailedFetchBecomesErrorState ==
    [][\A req \in BagToSet(inflight) :
          \A out \in NetworkOutcomes(req.op, req.pair) :
             ( /\ SettlePanel(req, out)
               /\ ~req.cancelled
               /\ ApiFetch(PathOf(req.op, req.pair), out).status = "rejected" ) =>
                /\ outcome' = "returned"
                /\ mounted'
                /\ req.by = "candles" =>
                      /\ errorMessage' = JString("Failed to fetch candles")
                      /\ isLoading' = FALSE
                      /\ UNCHANGED <<fetchedOrderBook, loading, error>>
                /\ req.by = "orderbook" =>
                      /\ error' = JString("Failed to fetch order book")
                      /\ loading' = FALSE
                      /\ UNCHANGED <<series, isLoading, errorMessage>>
    ]_vars

\* Both fetches for the selected pair have failed: each controller shows
\* its message and neither is loading.
C21_Witness ==
    /\ mounted
    /\ errorMessage = JString("Failed to fetch candles")
    /\ error = JString("Failed to fetch order book")
    /\ ~isLoading
    /\ ~loading
    /\ outcome = "returned"

\* C26: while the dashboard is mounted each panel shows a loading
\* indication, data or an error: the candle controller is loading, or the
\* chart has bars, or errorMessage is set; the order-book controller is
\* loading, or exposes an order book, or error is set.
C26_LoadingFromMount ==
    mounted =>
        /\ isLoading \/ series # <<>> \/ errorMessage # JNull
        /\ loading \/ ExposedOrderBook.t = "OrderBook" \/ error # JNull

\* C27: once the history of the selected pair has been loaded, the chart
\* shows that history with the live point applied when one has been
\* received (the bar of the latest live point is the last one and the
\* older periods of the history are before it, in their places), whether
\* the live point came before or after the history; with no live point the
\* chart shows the history as it is.
C27_SeriesIsHistoryWithLivePoint ==
    (mounted /\ isReady /\ ~isLoading /\ errorMessage = JNull) =>
        LET history == BarsOf(History(pair))
        IN  IF updatedCandle.t = "Candle"
              THEN LET bar == [time |-> updatedCandle.time \div 1000,
                               close |-> updatedCandle.close]
                   IN  bar.time >= history[Len(history)].time =>
                          /\ series # <<>>
                          /\ series[Len(series)] = bar
                          /\ \A i \in 1..Len(history) :
                                history[i].time < bar.time =>
                                   (i <= Len(series) /\ series[i].time = history[i].time)
              ELSE series = history

PendingFor(bag, p) ==
    CopiesIn([op |-> "fetchCandles", pair |-> p, by |-> "caller",
              cancelled |-> FALSE], bag)

\* C29: every fetchCandles(p) called while p is not cached issues its own
\* network request, however many requests for p are already in flight;
\* every request that succeeds writes its value to the cache with the time
\* of its completion; and a cached entry changes only by such a write, so
\* the cache holds the result of the request that completed last.
C29_ConcurrentMissesNotDeduplicated ==
    [][\A p \in Pairs :
          /\ (ServiceStep("fetchCandles", p, {"hit", "request"}) /\ ~Cached(p)) =>
                PendingFor(inflight', p) = PendingFor(inflight, p) + 1
          /\ ServiceStep("fetchCandles", p, {"fulfilled"}) =>
                /\ PendingFor(inflight', p) = PendingFor(inflight, p) - 1
                /\ KeyOf(p) \in DOMAIN candleCache'
                /\ candleCache'[KeyOf(p)] =
                      [data |-> apiCalls'[1].value, storedAt |-> now]
          /\ (Cached(p) /\ KeyOf(p) \in DOMAIN candleCache'
                /\ candleCache'[KeyOf(p)] # candleCache[KeyOf(p)]) =>
                ServiceStep("fetchCandles", p, {"fulfilled"})
    ]_vars

\* Of two requests for the same pair that were in flight together, one has
\* just succeeded and written the cache while the other is still awaited.
C29_Witness ==
    \E p \in Pairs :
        /\ JustDid("fetchCandles", p)
        /\ apiCalls[1].kind = "fulfilled"
        /\ Cached(p)
        /\ candleCache[KeyOf(p)].storedAt = now
        /\ PendingFor(inflight, p) = 1

(***************************************************************************)
(* Properties of the panels: one fetch per controller.                     *)
(***************************************************************************)
\* The requests in bag that the controller `by` has not cancelled.
Awaited(bag, by) == {r \in BagToSet(bag) : r.by = by /\ ~r.cancelled}

\* The controller `by` awaits at most one request, and it is for pair p.
AtMostOneFor(bag, by, p) ==
    /\ Cardinality(Awaited(bag, by)) <= 1
    /\ \A r \in Awaited(bag, by) : CopiesIn(r, bag) = 1 /\ r.pair = p

\* C30: a step that changes the selected pair leaves every request made
\* before it cancelled; after it the order-book controller awaits exactly
\* one request, for the new pair, and the candle controller, once the chart
\* is ready, has called fetchCandles once for the new pair: it awaits
\* exactly one request for it, or none when the candles were cached and
\* are already on the chart.  After every step each controller awaits at
\* most one request it has not cancelled, and that one is for the selected
\* pair.
C30_OneFetchPerControllerForSelectedPair ==
    [][/\ pair' # pair =>
             /\ \A r \in BagToSet(inflight) :
                   ~r.cancelled => CopiesIn(r, inflight') = 0
             /\ Cardinality(Awaited(inflight', "orderbook")) = 1
             /\ IF ~isReady
                   THEN Awaited(inflight', "candles") = {}
                 ELSE IF KeyOf(pair') \in DOMAIN candleCache
                   THEN /\ Awaited(inflight', "candles") = {}
                        /\ series' = BarsOf(candleCache[KeyOf(pair')].data.items)
                   ELSE Cardinality(Awaited(inflight', "candles")) = 1
       /\ AtMostOneFor(inflight', "orderbook", pair')
       /\ AtMostOneFor(inflight', "candles", pair')
    ]_vars

\* After a pair change a request for an earlier pair is cancelled and
\* still in flight, and each controller awaits one request for the
\* selected pair.
C30_Witness ==
    /\ mounted
    /\ isReady
    /\ BagCardinality(inflight) >= 3
    /\ \E r \in BagToSet(inflight) : r.cancelled /\ r.pair # pair
    /\ Cardinality(Awaited(inflight, "orderbook")) = 1
    /\ Cardinality(Awaited(inflight, "candles")) = 1

(***************************************************************************)
(* Properties of the panels: the loading flags.                            *)
(***************************************************************************)
\* C31: while the dashboard is mounted a controller's loading flag is true
\* exactly when it awaits a fetch it has not cancelled (which is the fetch
\* for the selected pair): true while that fetch is in flight, false from
\* its settling, with a success or a failure, until the next fetch starts,
\* whatever cancelled fetches of earlier pairs are still in flight.
C31_LoadingIffCurrentFetchPending ==
    mounted =>
        /\ loading <=> (\E r \in BagToSet(inflight) :
                           r.by = "orderbook" /\ ~r.cancelled /\ r.pair = pair)
        /\ isLoading <=> (\E r \in BagToSet(inflight) :
                             r.by = "candles" /\ ~r.cancelled /\ r.pair = pair)

\* The fetches for the selected pair have settled and neither controller
\* is loading, while a cancelled fetch for an earlier pair is in flight.
C31_Witness ==
    /\ mounted
    /\ isReady
    /\ ~loading
    /\ ~isLoading
    /\ \E r \in BagToSet(inflight) : r.cancelled /\ r.pair # pair

(***************************************************************************)
(* Properties of the panels: the readiness gate of the chart.              *)
(***************************************************************************)
\* The candle controller's calls in bag, cancelled or not.
CandleRequests(bag) == {r \in BagToSet(bag) : r.by = "candles"}

\* C32: a step taken while the chart is not ready, and which leaves it not
\* ready, starts no candle fetch and puts nothing on the chart; the step in
\* which the chart becomes ready starts the fetch for the selected pair;
\* and while the mounted chart is not ready no candle fetch is in flight,
\* so no result that reaches setCandles was requested before the chart was
\* ready.
C32_NoCandleFetchBeforeReady ==
    [][/\ (~isReady /\ ~isReady') =>
             /\ \A r \in CandleRequests(inflight') :
                   CopiesIn(r, inflight') <= CopiesIn(r, inflight)
             /\ series' = series
             /\ isLoading' = isLoading
       /\ (~isReady /\ isReady') =>
             /\ pair' = pair
             /\ {r \in CandleRequests(inflight') : ~r.cancelled}
                   = {[op |-> "fetchCandles", pair |-> pair, by |-> "candles",
                       cancelled |-> FALSE]}
             /\ isLoading'
       /\ (mounted' /\ ~isReady') => CandleRequests(inflight') = {}
    ]_vars

\* The pair was changed before the chart was ready; the chart is now ready
\* and the only candle fetch in flight is for the selected pair.
C32_Witness ==
    /\ mounted
    /\ isReady
    /\ pair # DefaultPair
    /\ ~(KeyOf(DefaultPair) \in DOMAIN candleCache)
    /\ CandleRequests(inflight)
          = {[op |-> "fetchCandles", pair |-> pair, by |-> "candles",
              cancelled |-> FALSE]}
    /\ series = <<>>

\* C33: a call of setCandles or updateCandle made while there is no chart
\* series, because no chart was ever created or because the cleanup has
\* removed it, returns normally and changes nothing of the chart.
C33_NoChartNoEffect ==
    [][~candleSeriesRef =>
          /\ outcome' = "returned"
          /\ series' = series
          /\ candleSeriesRef' = candleSeriesRef
          /\ isReady' = isReady
    ]_vars

\* updateCandle has been called with a live candle in a component whose
\* chart was never created.
C33_Witness ==
    /\ mounted
    /\ ~candleSeriesRef
    /\ updatedCandle \in SeriesCandles
    /\ series = <<>>
    /\ outcome = "returned"

(***************************************************************************)
(* Properties of the cache: set.                                           *)
(***************************************************************************)
\* C34: whatever was stored under k before (nothing, a fresh entry, an
\* expired entry not yet evicted), right after set(k, v) a get(k) returns v
\* and evicts nothing, and the entry carries the time of this set, from
\* which its expiry is counted; no other entry is touched.
C34_SetOverwritesAndRestartsTtl ==
    [][\A k \in CacheKeys :
          Calls("set", k) =>
             LET got == CacheGet(cache', k, ttl, now)
             IN  /\ got.data = cacheCall'.arg
                 /\ got.store = cache'
                 /\ cache'[k].storedAt = now
                 /\ OthersKept(k)
    ]_vars

\* With a ttl of 1 ms, set("k", v) has run at time 2 over an earlier entry
\* while the entry under "x", stored at time 0, is expired and still in the
\* store.
C34_Witness ==
    /\ cacheCall.op = "set"
    /\ cacheCall.key = "k"
    /\ cacheCall.arg = JObject(2)
    /\ ttl = Millis(1)
    /\ now = 2
    /\ DOMAIN cache = {"k", "x"}
    /\ cache["k"] = [data |-> JObject(2), storedAt |-> 2]
    /\ cache["x"].storedAt = 0

(***************************************************************************)
(* Properties of the dashboard controller.                                 *)
(***************************************************************************)
\* C35: after every step showCandles holds exactly when the mode is "all"
\* or "candles", showOrderBook exactly when it is "all" or "orderbook" and
\* showBoth exactly when it is "all", so one panel at least is shown; a
\* step that changes the pair leaves the mode as it is and a step that
\* changes the mode leaves the pair as it is.
C35_VisibilityFollowsStreamMode ==
    [][/\ ShowCandles' <=> streamMode' \in {"all", "candles"}
       /\ ShowOrderBook' <=> streamMode' \in {"all", "orderbook"}
       /\ ShowBoth' <=> streamMode' = "all"
       /\ ShowCandles' \/ ShowOrderBook'
       /\ pair' # pair => streamMode' = streamMode
       /\ streamMode' # streamMode => pair' = pair
    ]_vars

\* The mode has been set to "orderbook" and another pair selected: only
\* the order book is shown.
C35_Witness ==
    /\ streamMode = "orderbook"
    /\ pair # DefaultPair
    /\ ShowOrderBook
    /\ ~ShowCandles
    /\ ~ShowBoth

(***************************************************************************)
(* Properties of the panels: the error after a success.                    *)
(***************************************************************************)
\* C36: when the fetch a controller still awaits succeeds, the error of
\* that controller is null after the step, whatever failures came before.
C36_SuccessClearsError ==
    [][\A req \in BagToSet(inflight) :
          \A out \in NetworkOutcomes(req.op, req.pair) :
             ( /\ SettlePanel(req, out)
               /\ ~req.cancelled
               /\ ApiFetch(PathOf(req.op, req.pair), out).status = "fulfilled" ) =>
                /\ req.by = "candles" => errorMessage' = JNull
                /\ req.by = "orderbook" => error' = JNull
    ]_vars

(***************************************************************************)
(* Properties of the fetch client: a failed fetchCandles.                  *)
(***************************************************************************)
\* C37 as stated: a fetchCandles(P) call that fails leaves the candle cache
\* unchanged, and the next fetchCandles(P) issues a new network request:
\* P is not cached when the failed call returns.
C37_FailedFetchLeavesPairUncached ==
    [][\A p \in Pairs :
          ServiceStep("fetchCandles", p, {"rejected"}) =>
             /\ candleCache' = candleCache
             /\ KeyOf(p) \notin DOMAIN candleCache'
    ]_vars

\* C37: a fetchCandles(P) call that fails leaves the candle cache
\* unchanged, and a fetchCandles(P) that follows it issues a new network
\* request unless another fetchCandles(P) call has cached P.
C37_FailedFetchLeavesCacheUnchanged ==
    [][\A p \in Pairs :
          /\ ServiceStep("fetchCandles", p, {"rejected"}) =>
                candleCache' = candleCache
          /\ ( /\ JustDid("fetchCandles", p)
               /\ apiCalls[1].kind = "rejected"
               /\ KeyOf(p) \notin DOMAIN candleCache
               /\ ServiceStep("fetchCandles", p, {"hit", "request"}) ) =>
                /\ apiCalls'[1].kind = "request"
                /\ BagCardinality(inflight') = BagCardinality(inflight) + 1
                /\ candleCache' = candleCache
    ]_vars

\* A fetchCandles call has just failed for a pair that is not cached while
\* another pair is.
C37_Witness ==
    /\ Len(apiCalls) = 1
    /\ apiCalls[1].op = "fetchCandles"
    /\ apiCalls[1].kind = "rejected"
    /\ KeyOf(apiCalls[1].pair) \notin DOMAIN candleCache
    /\ \E q \in Pairs : KeyOf(q) \in DOMAIN candleCache

(***************************************************************************)
(* Properties of the panels: a superseded candle fetch.                    *)
(***************************************************************************)
\* C38: when a candle fetch whose controller no longer awaits it succeeds,
\* its result is stored in the cache and the candle panel stays as it was;
\* a later selection of a cached pair, with the chart ready, puts the
\* cached candles on the chart, ends loading and issues no candle request.
C38_SupersededFetchStillCaches ==
    [][/\ \A req \in BagToSet(inflight) :
             \A out \in NetworkOutcomes(req.op, req.pair) :
                ( /\ SettlePanel(req, out)
                  /\ req.by = "candles"
                  /\ req.cancelled
                  /\ ApiFetch(PathOf(req.op, req.pair), out).status = "fulfilled" ) =>
                   /\ KeyOf(req.pair) \in DOMAIN candleCache'
                   /\ candleCache'[KeyOf(req.pair)].data
                         = ApiFetch(PathOf(req.op, req.pair), out).value
                   /\ series' = series
                   /\ isLoading' = isLoading
                   /\ errorMessage' = errorMessage
       /\ (pair' # pair /\ isReady /\ KeyOf(pair') \in DOMAIN candleCache) =>
             /\ \A r \in CandleRequests(inflight') :
                   /\ r.cancelled
                   /\ CopiesIn(r, inflight') <= CopiesIn(r, inflight)
                          + CopiesIn([r EXCEPT !.cancelled = FALSE], inflight)
             /\ series' = BarsOf(candleCache[KeyOf(pair')].data.items)
             /\ isLoading' = FALSE
             /\ candleCache' = candleCache
    ]_vars

\* A pair other than the selected one is cached although nothing has been
\* put on the chart yet: its fetch succeeded after the pair was switched
\* away from it, and the fetch for the selected pair is still awaited.
C38_Witness ==
    /\ mounted
    /\ isReady
    /\ series = <<>>
    /\ isLoading
    /\ \E q \in Pairs \ {pair} :
          /\ KeyOf(q) \in DOMAIN candleCache
          /\ candleCache[KeyOf(q)].data = JArray(History(q))

(***************************************************************************)
(* Properties of the chart: live points and the cached history.            *)
(***************************************************************************)
\* C39: a step that applies a live point to the chart leaves the candle
\* cache as it was, and while the entry of a pair stays in the cache a
\* fetchCandles for that pair is a hit that returns the sequence the entry
\* held before the step.
C39_LiveUpdatesLeaveCacheAlone ==
    [][/\ (updatedCandle' # updatedCandle \/ (series' # series /\ inflight' = inflight)) =>
             candleCache' = candleCache
       /\ \A p \in Pairs :
             (KeyOf(p) \in DOMAIN candleCache /\ KeyOf(p) \in DOMAIN candleCache') =>
                /\ FetchCandlesRead(candleCache', now', p).hit
                /\ FetchCandlesRead(candleCache', now', p).value
                      = candleCache[KeyOf(p)].data
    ]_vars

\* The history of the selected pair is cached as it was fetched while the
\* chart shows it with a live point appended.
C39_Witness ==
    /\ KeyOf(pair) \in DOMAIN candleCache
    /\ candleCache[KeyOf(pair)].data = JArray(History(pair))
    /\ updatedCandle.t = "Candle"
    /\ Len(series) = Len(History(pair)) + 1
    /\ series[Len(series)] = BarsOf(<<updatedCandle>>)[1]
    /\ \A i \in 1..Len(History(pair)) : series[i] = BarsOf(History(pair))[i]

(***************************************************************************)
(* Properties of the stream client: the pair of the inbound filter.        *)
(***************************************************************************)
\* The positions of the subscribe frames among the frames sent.
SubscribesIn(frames) == {k \in 1..Len(frames) : frames[k].type = "subscribe"}

\* The greatest of a non-empty set of positions.
Latest(positions) == CHOOSE k \in positions : \A j \in positions : j <= k

\* C40: whenever the connection is Open and a subscribe frame has been
\* sent, currentPairRef, the pair inbound frames are filtered by, is the
\* pair of the subscribe frame sent last.
C40_FilterPairIsLastSubscribed ==
    (readyState = "OPEN" /\ SubscribesIn(sent) # {}) =>
        currentPairRef = sent[Latest(SubscribesIn(sent))].pair

\* Two pair switches on the open connection: the filter pair is the pair
\* of the third subscribe frame, and differs from those of the first two.
C40_Witness ==
    /\ readyState = "OPEN"
    /\ Cardinality(SubscribesIn(sent)) = 3
    /\ currentPairRef = sent[Len(sent)].pair
    /\ \A k \in SubscribesIn(sent) \ {Len(sent)} : sent[k].pair # currentPairRef

====
